---- MODULE Spec2Model ----
(***************************************************************************)
(* Fan-out orchestration and status aggregation of the content             *)
(* repurposing engine: the durable store (one content_queue row and its    *)
(* platform_outputs rows) and the route handlers that write it:            *)
(*   POST /api/content                      (Submit)                       *)
(*   POST /api/n8n/callback                 (Callback, Cb* steps)          *)
(*   POST /api/content/:id/regenerate       (Regenerate, Rg* steps)        *)
(*   PATCH /api/content/:id/outputs/:oid    (Edit)                         *)
(*   POST /api/content/:id/schedule         (Schedule)                     *)
(* Strings stand for text values; NULL is the SQL null, Undef a field a    *)
(* request body leaves out.                                                *)
(***************************************************************************)
EXTENDS Integers, Sequences, FiniteSets, TLC

\* ------------------------------------------------------------------ bounds
NumPlatforms == 3
MaxTargets == 2
MaxRowSeq == 2
MaxHandlers == 2
MaxGen == 2
ConcTargets == 1
OrderTargets == 3

\* --------------------------------------------------------------- constants
PlatformEnum == <<"instagram", "linkedin", "twitter", "facebook", "pinterest", "tiktok">>
Platforms == {PlatformEnum[i] : i \in 1..NumPlatforms}
PlatIdx(p) == CHOOSE i \in 1..Len(PlatformEnum) : PlatformEnum[i] = p

NULL == "null"
Undef == "undefined"
NoTime == 0
DayLen == 24
DefaultBestTime == 14
DefaultCharLimit == 10000
NoResp == [code |-> "NONE", names |-> {}]
NoBody == [platform |-> "none", status |-> "none", hasOutput |-> FALSE,
           rewritten_copy |-> "undefined", hashtags |-> <<>>, error_message |-> "undefined"]
NoCounts == [t |-> 0, r |-> 0, s |-> 0]

\* ------------------------------------------------------------------- state
VARIABLES
  status,           \* content_queue.status; "absent" before the unit exists
  errorMessage,     \* content_queue.error_message
  targetPlatforms,  \* content_queue.target_platforms (an array)
  outputs,          \* the platform_outputs rows of the unit
  rowSeq,           \* rows created so far per platform (fresh row ids)
  platformConfigs,  \* platform_configs of the unit's profile
  response,         \* the response of the last handler that returned
  cb,               \* the callback handlers in progress: position and locals
  rg,               \* the regenerate handler in progress: position and locals
  jobs,             \* platform jobs dispatched and not yet reported: <<platform, generation>>
  gen,              \* the number of dispatch generations opened so far
  rowGen,           \* per platform, the generation of the job whose outcome is stored
  plan,             \* the outcomes the platform jobs of a scenario will report
  todo              \* what of the plan has not been delivered yet

store == <<status, errorMessage, targetPlatforms, outputs, rowSeq, platformConfigs>>
handlers == <<cb, rg>>
jobvars == <<jobs, gen, rowGen>>
scenario == <<plan, todo>>
vars == <<status, errorMessage, targetPlatforms, outputs, rowSeq, platformConfigs, response,
          cb, rg, jobs, gen, rowGen, plan, todo>>

\* ----------------------------------------------------------------- helpers
SeqToSet(s) == {s[i] : i \in 1..Len(s)}
Includes(arr, p) == \E i \in 1..Len(arr) : arr[i] = p

\* arrays of platforms up to MaxTargets long (platformEnum array, min 1);
\* only the arrangements in enum order are drawn, a permutation of an array
\* is the same request for every handler modelled here
ArraysUpTo(n) ==
  {s \in UNION {[1..k -> Platforms] : k \in 1..n} :
     \A i \in 1..(Len(s) - 1) : PlatIdx(s[i]) <= PlatIdx(s[i + 1])}
TargetArrays == ArraysUpTo(MaxTargets)
NoDuplicates(s) == \A i, j \in 1..Len(s) : s[i] = s[j] => i = j

Resp(c, n) == [code |-> c, names |-> n]

\* rows of a platform, and the prisma findUnique by (contentId, platform)
RowsOf(rows, p) == {r \in rows : r.platform = p}
NoId == <<"none", 0>>
FindUnique(rows, p) ==
  IF RowsOf(rows, p) = {} THEN NoId ELSE (CHOOSE r \in RowsOf(rows, p) : TRUE).id
RowById(rows, id) == CHOOSE r \in rows : r.id = id
HasId(rows, id) == \E r \in rows : r.id = id

\* ------------------------------------------------------------ input domains
Copies == {"c1", "c2"}
HashtagLists == {<<>>, <<"#a">>}
ErrorTexts == {Undef, "e1"}

\* bodies accepted by callbackSchema; without an output object the output
\* fields are absent
CallbackBodies ==
  {b \in [platform : Platforms, status : {"success", "failed"}, hasOutput : BOOLEAN,
          rewritten_copy : Copies \cup {Undef}, hashtags : HashtagLists,
          error_message : ErrorTexts] :
     ~b.hasOutput => (b.rewritten_copy = Undef /\ b.hashtags = <<>>)}

\* ------------------------------------------------- the durable store's rules
\* uniqueness of (content_id, platform) on platform_outputs
UniqueViolation(rows, p) == RowsOf(rows, p) # {}

NewRow(p, n, copy, tags) ==
  [id |-> <<p, n>>, platform |-> p, rewrittenCopy |-> copy, hashtags |-> tags,
   userEdited |-> FALSE, editedCopy |-> NULL, editedHashtags |-> <<>>,
   scheduledFor |-> NoTime]

Threw(rows, seq) == [ok |-> FALSE, rows |-> rows, seq |-> seq]

\* prisma.platformOutput.create: fails on a duplicate (content, platform)
CreateRow(rows, seq, p, copy, tags) ==
  IF UniqueViolation(rows, p) THEN Threw(rows, seq)
  ELSE [ok |-> TRUE, rows |-> rows \cup {NewRow(p, seq[p] + 1, copy, tags)},
        seq |-> [seq EXCEPT ![p] = @ + 1]]

\* prisma.platformOutput.update({where: {id}}): fails when the row is gone
\* (upd maps a row to the row with the data of the update applied)
UpdateRow(rows, seq, id, upd) ==
  IF ~HasId(rows, id) THEN Threw(rows, seq)
  ELSE [ok |-> TRUE, rows |-> {IF r.id = id THEN upd[r] ELSE r : r \in rows}, seq |-> seq]

\* ------------------------------------------------------ POST /api/n8n/callback
\* the write the handler makes for body b when its findUnique returned
\* existingId
SuccessUpdateAppends(b, r) ==
  [r EXCEPT !.rewrittenCopy = IF b.rewritten_copy = Undef THEN @ ELSE b.rewritten_copy,
            !.hashtags = @ \o b.hashtags]
SuccessUpdate(b, r) ==
  [r EXCEPT !.rewrittenCopy = IF b.rewritten_copy = Undef THEN @ ELSE b.rewritten_copy,
            !.hashtags = b.hashtags]
FailedUpdate(r) == [r EXCEPT !.rewrittenCopy = NULL]

WriteOutcomeAlwaysCreate(rows, seq, b, existingId) ==
  IF b.status = "success" /\ b.hasOutput THEN
    CreateRow(rows, seq, b.platform,
              IF b.rewritten_copy = Undef THEN NULL ELSE b.rewritten_copy, b.hashtags)
  ELSE IF b.status = "failed" THEN CreateRow(rows, seq, b.platform, NULL, <<>>)
  ELSE [ok |-> TRUE, rows |-> rows, seq |-> seq]
WriteOutcomeFailsAll(rows, seq, b, existingId) ==
  IF b.status = "success" /\ b.hasOutput THEN
    IF existingId # NoId
    THEN UpdateRow(rows, seq, existingId, [r \in rows |-> SuccessUpdate(b, r)])
    ELSE CreateRow(rows, seq, b.platform,
                   IF b.rewritten_copy = Undef THEN NULL ELSE b.rewritten_copy, b.hashtags)
  ELSE IF b.status = "failed" THEN
    IF existingId # NoId
    THEN [ok |-> TRUE, rows |-> {FailedUpdate(r) : r \in rows}, seq |-> seq]
    ELSE CreateRow(rows, seq, b.platform, NULL, <<>>)
  ELSE [ok |-> TRUE, rows |-> rows, seq |-> seq]
WriteOutcome(rows, seq, b, existingId) ==
  IF b.status = "success" /\ b.hasOutput THEN
    IF existingId # NoId
    THEN UpdateRow(rows, seq, existingId, [r \in rows |-> SuccessUpdate(b, r)])
    ELSE CreateRow(rows, seq, b.platform,
                   IF b.rewritten_copy = Undef THEN NULL ELSE b.rewritten_copy, b.hashtags)
  ELSE IF b.status = "failed" THEN
    IF existingId # NoId
    THEN UpdateRow(rows, seq, existingId, [r \in rows |-> FailedUpdate(r)])
    ELSE CreateRow(rows, seq, b.platform, NULL, <<>>)
  ELSE [ok |-> TRUE, rows |-> rows, seq |-> seq]

\* whether the handler stores anything for b (the success branch needs output)
Records(b) == (b.status = "success" /\ b.hasOutput) \/ b.status = "failed"

TargetCount(tp) == Len(tp)
OutputCount(rows) == Cardinality(rows)
SuccessCount(rows) == Cardinality({r \in rows : r.rewrittenCopy # NULL})

NewStatusNeverFailed(t, s) ==
  IF s = t THEN "complete" ELSE "partial"
NewStatusNoPartial(t, s) ==
  IF s = t THEN "complete" ELSE "failed"
NewStatus(t, s) ==
  IF s = t THEN "complete" ELSE IF s = 0 THEN "failed" ELSE "partial"

\* the counts the handler reads (content with its platformOutputs)
ReadCounts(tp, rows) ==
  [t |-> TargetCount(tp), r |-> OutputCount(rows), s |-> SuccessCount(rows)]

\* whether the handler writes the status for counts c, and what it writes
WritesStatus(c) == c.r >= c.t
StatusWritten(c) == NewStatus(c.t, c.s)
ErrorWritten(c, b) ==
  IF StatusWritten(c) = "failed"
  THEN (IF b.error_message = Undef THEN "All platforms failed" ELSE b.error_message)
  ELSE NULL

\* bound on row ids: a create needs an unused sequence number
CanWrite(b, existingId) ==
  (Records(b) /\ existingId = NoId) => rowSeq[b.platform] < MaxRowSeq

\* the whole handler, run without interleaving
Callback(b) ==
  /\ status # "absent"
  /\ LET ex == FindUnique(outputs, b.platform)
         w == WriteOutcome(outputs, rowSeq, b, ex)
         c == ReadCounts(targetPlatforms, w.rows)
     IN /\ CanWrite(b, ex)
        /\ outputs' = w.rows
        /\ rowSeq' = w.seq
        /\ IF ~w.ok
           THEN /\ response' = Resp("INTERNAL_ERROR", {})
                /\ UNCHANGED <<status, errorMessage>>
           ELSE /\ response' = Resp("ACK", {})
                /\ IF WritesStatus(c)
                   THEN /\ status' = StatusWritten(c)
                        /\ errorMessage' = ErrorWritten(c, b)
                   ELSE UNCHANGED <<status, errorMessage>>
  /\ UNCHANGED <<targetPlatforms, platformConfigs>>

\* ------------------------------------------- POST /api/content/:id/regenerate
InvalidPlatformsUnlessSome(tp, P) ==
  IF \E p \in P : Includes(tp, p) THEN {} ELSE P
InvalidPlatforms(tp, P) == {p \in P : ~Includes(tp, p)}
DeleteManyForContent(rows, P) == {}
DeleteMany(rows, P) == {r \in rows : r.platform \notin P}

\* D: the platforms of P whose processor webhook is reached (none when
\* N8N_WEBHOOK_URL is unset, not those whose fetch throws)
RegenerateNarrowsTargets(P, D) ==
  /\ status # "absent"
  /\ D \subseteq P
  /\ IF InvalidPlatforms(targetPlatforms, P) # {}
     THEN /\ response' = Resp("INVALID_PLATFORMS", InvalidPlatforms(targetPlatforms, P))
          /\ UNCHANGED <<status, outputs, jobs, gen, targetPlatforms>>
     ELSE /\ outputs' = DeleteMany(outputs, P)
          /\ status' = "processing"
          /\ targetPlatforms' = SelectSeq(targetPlatforms, LAMBDA p : p \in P)
          /\ jobs' = jobs \cup {<<p, gen + 1>> : p \in D}
          /\ gen' = IF D = {} THEN gen ELSE gen + 1
          /\ response' = Resp("REGENERATING", P)
  /\ UNCHANGED <<errorMessage, rowSeq, platformConfigs>>
Regenerate(P, D) ==
  /\ status # "absent"
  /\ D \subseteq P
  /\ IF InvalidPlatforms(targetPlatforms, P) # {}
     THEN /\ response' = Resp("INVALID_PLATFORMS", InvalidPlatforms(targetPlatforms, P))
          /\ UNCHANGED <<status, outputs, jobs, gen>>
     ELSE /\ outputs' = DeleteMany(outputs, P)
          /\ status' = "processing"
          /\ jobs' = jobs \cup {<<p, gen + 1>> : p \in D}
          /\ gen' = IF D = {} THEN gen ELSE gen + 1
          /\ response' = Resp("REGENERATING", P)
  /\ UNCHANGED <<errorMessage, targetPlatforms, rowSeq, platformConfigs>>

\* ------------------------------------------------------------ POST /api/content
EnabledPlatforms(cfg, tp) ==
  {p \in SeqToSet(tp) : cfg[p].present /\ cfg[p].enabled}
MissingPlatformsAbsentOnly(cfg, tp) == {p \in SeqToSet(tp) : ~cfg[p].present}
MissingPlatforms(cfg, tp) == SeqToSet(tp) \ EnabledPlatforms(cfg, tp)

\* trig: the N8N_WEBHOOK_URL is "unset", or the orchestrator fetch is "ok",
\* resolves with an error status ("http_error") or "throws"
Submit(tp, trig) ==
  /\ status = "absent"
  /\ IF MissingPlatforms(platformConfigs, tp) # {}
     THEN /\ response' = Resp("MISSING_PLATFORM_CONFIG", MissingPlatforms(platformConfigs, tp))
          /\ UNCHANGED <<status, errorMessage, targetPlatforms>>
     ELSE /\ targetPlatforms' = tp
          /\ IF trig = "throws"
             THEN /\ status' = "failed"
                  /\ errorMessage' = "Failed to trigger processing workflow"
                  /\ response' = Resp("N8N_TRIGGER_FAILED", {})
             ELSE /\ status' = "pending"
                  /\ errorMessage' = NULL
                  /\ response' = Resp("CREATED_PENDING", {})
  /\ UNCHANGED <<outputs, rowSeq, platformConfigs>>

\* ------------------------------------ PATCH /api/content/:id/outputs/:outputId
\* text is kept as a string and measured by this table
StrLen(t) == CASE t = "" -> 0 [] t = "ab" -> 2 [] t = "abcd" -> 4 [] OTHER -> 2
EditCopies == {Undef, "", "ab", "abcd"}
EditBodies ==
  [editedCopy : EditCopies, hasHashtags : BOOLEAN, editedHashtags : HashtagLists]

CharLimitDefaultOnly(cfg, p) == DefaultCharLimit
CharLimit(cfg, p) ==
  IF cfg[p].present /\ cfg[p].charLimit # 0 THEN cfg[p].charLimit ELSE DefaultCharLimit

EditUpdateOverwrites(e, r) ==
  [r EXCEPT !.userEdited = TRUE,
            !.rewrittenCopy = IF e.editedCopy = Undef THEN @ ELSE e.editedCopy,
            !.editedCopy = IF e.editedCopy = Undef THEN @ ELSE e.editedCopy,
            !.editedHashtags = IF e.hasHashtags THEN e.editedHashtags ELSE @]
EditUpdate(e, r) ==
  [r EXCEPT !.userEdited = TRUE,
            !.editedCopy = IF e.editedCopy = Undef THEN @ ELSE e.editedCopy,
            !.editedHashtags = IF e.hasHashtags THEN e.editedHashtags ELSE @]

\* the copy taken for publication: the override copy when the row is marked
\* user-edited, the generated copy otherwise
PublishCopy(r) == IF r.userEdited THEN r.editedCopy ELSE r.rewrittenCopy

\* own: whether the content id of the request is the unit's id
Edit(own, oid, e) ==
  /\ status # "absent"
  /\ IF ~(own /\ HasId(outputs, oid))
     THEN /\ response' = Resp("OUTPUT_NOT_FOUND", {})
          /\ UNCHANGED outputs
     ELSE LET r == RowById(outputs, oid) IN
          IF e.editedCopy \notin {Undef, ""}
               /\ StrLen(e.editedCopy) > CharLimit(platformConfigs, r.platform)
          THEN /\ response' = Resp("CHAR_LIMIT_EXCEEDED", {r.platform})
               /\ UNCHANGED outputs
          ELSE /\ outputs' = UpdateRow(outputs, rowSeq, oid, [x \in outputs |-> EditUpdate(e, x)]).rows
               /\ response' = Resp("EDITED", {r.platform})
  /\ UNCHANGED <<status, errorMessage, targetPlatforms, rowSeq, platformConfigs>>

\* ---------------------------------------------- POST /api/content/:id/schedule
\* time is counted in hours; a best posting time is an hour of the day
NoBest == -1
BestTime(cfg, p) ==
  IF cfg[p].present /\ cfg[p].bestPostingTime # NoBest
  THEN cfg[p].bestPostingTime ELSE DefaultBestTime

BestTimeForToday(cfg, p, now) == (now \div DayLen) * DayLen + BestTime(cfg, p)
BestTimeFor(cfg, p, now) ==
  LET today == (now \div DayLen) * DayLen + BestTime(cfg, p)
  IN IF today <= now THEN today + DayLen ELSE today

\* if (!output.rewrittenCopy) continue
EligibleAny(o) == TRUE
Eligible(o) == o.rewrittenCopy \notin {NULL, ""}

Perms(S) == {f \in [1..Cardinality(S) -> S] : \A i, j \in 1..Cardinality(S) : f[i] = f[j] => i = j}

\* the loop over content.platformOutputs from position i on: each update is
\* persisted before the next output is looked at
RECURSIVE SchedLoop(_, _, _, _, _, _, _)
SchedLoop(order, i, rows, mode, custom, now, done) ==
  IF i > Len(order) THEN [rows |-> rows, resp |-> Resp("SCHEDULED", done)]
  ELSE LET o == order[i] IN
    IF ~Eligible(o)
    THEN SchedLoop(order, i + 1, rows, mode, custom, now, done)
    ELSE IF mode = "custom" /\ custom[o.platform] = NoTime
    THEN [rows |-> rows, resp |-> Resp("MISSING_SCHEDULE", {o.platform})]
    ELSE LET t == IF mode = "custom" THEN custom[o.platform]
                  ELSE BestTimeFor(platformConfigs, o.platform, now)
         IN IF t <= now
            THEN [rows |-> rows, resp |-> Resp("INVALID_SCHEDULE", {o.platform})]
            ELSE SchedLoop(order, i + 1,
                           UpdateRow(rows, rowSeq, o.id,
                                     [x \in rows |-> [x EXCEPT !.scheduledFor = t]]).rows,
                           mode, custom, now, done \cup {o.platform})

Schedule(mode, custom, now, order) ==
  /\ status # "absent"
  /\ IF status \notin {"complete", "partial"}
     THEN /\ response' = Resp("CONTENT_NOT_READY", {})
          /\ UNCHANGED outputs
     ELSE LET res == SchedLoop(order, 1, outputs, mode, custom, now, {})
          IN /\ outputs' = res.rows
             /\ response' = res.resp
  /\ UNCHANGED <<status, errorMessage, targetPlatforms, rowSeq, platformConfigs>>

\* ------------------------------- PUT /api/profiles/:id/platforms/:platform
\* a field the body does not carry keeps its value
Keep == -2
NoUpdate ==
  [charLimit |-> Keep, bestPostingTime |-> Keep, enabled |-> Keep,
   hashtagCountMin |-> Keep, hashtagCountMax |-> Keep]
ConfigBodies(limits, times) ==
  {[NoUpdate EXCEPT !.charLimit = l, !.bestPostingTime = t] :
     l \in limits \cup {Keep}, t \in times \cup {Keep}}
\* enabled: 1 for true, 0 for false
EnableBodies == {[NoUpdate EXCEPT !.enabled = e] : e \in {0, 1}}
HashtagBodies(counts) ==
  {[NoUpdate EXCEPT !.hashtagCountMin = a, !.hashtagCountMax = b] :
     a \in counts \cup {Keep}, b \in counts \cup {Keep}}

\* the range check the handler makes on the body
BadHashtagRange(u) ==
  /\ u.hashtagCountMin # Keep
  /\ u.hashtagCountMax # Keep
  /\ u.hashtagCountMin > u.hashtagCountMax

ApplyConfig(cfg, u) ==
  [cfg EXCEPT !.charLimit = IF u.charLimit = Keep THEN @ ELSE u.charLimit,
              !.bestPostingTime = IF u.bestPostingTime = Keep THEN @ ELSE u.bestPostingTime,
              !.enabled = IF u.enabled = Keep THEN @ ELSE u.enabled = 1,
              !.hashtagCountMin = IF u.hashtagCountMin = Keep THEN @ ELSE u.hashtagCountMin,
              !.hashtagCountMax = IF u.hashtagCountMax = Keep THEN @ ELSE u.hashtagCountMax]

UpdatePlatformConfig(p, u) ==
  /\ IF BadHashtagRange(u)
     THEN /\ response' = Resp("VALIDATION_ERROR", {p})
          /\ UNCHANGED platformConfigs
     ELSE IF ~platformConfigs[p].present
     THEN /\ response' = Resp("CONFIG_NOT_FOUND", {p})
          /\ UNCHANGED platformConfigs
     ELSE /\ platformConfigs' = [platformConfigs EXCEPT ![p] = ApplyConfig(@, u)]
          /\ response' = Resp("CONFIG_UPDATED", {p})
  /\ UNCHANGED <<status, errorMessage, targetPlatforms, outputs, rowSeq>>

\* -------------------------- POST /api/profiles/:id/platforms/:platform/test
\* a text field is set when it is neither null nor empty
IsSet(t) == t \notin {NULL, ""}

\* the prompt as the set of the parts it is put together from
DefaultPromptText == "You are a social media copywriter"
BuildDefaultSystemPrompt(cfg) ==
  {DefaultPromptText} \cup (IF IsSet(cfg.toneOverride) THEN {cfg.toneOverride} ELSE {})
SystemPromptOf(cfg) ==
  IF IsSet(cfg.systemPrompt) THEN {cfg.systemPrompt} ELSE BuildDefaultSystemPrompt(cfg)

\* the handler loads the configuration with its profile and answers with the
\* prompt it built
TestConfig(p) ==
  /\ IF ~platformConfigs[p].present
     THEN response' = Resp("CONFIG_NOT_FOUND", {p})
     ELSE response' = Resp("TESTED", SystemPromptOf(platformConfigs[p]))
  /\ UNCHANGED store

\* ------------------------------------------------ GET /api/content/:id/status
CompletedPlatforms(rows) == {r.platform : r \in {o \in rows : o.rewrittenCopy # NULL}}
FailedPlatformsAllRows(rows) == {r.platform : r \in rows}
FailedPlatforms(rows) == {r.platform : r \in {o \in rows : o.rewrittenCopy = NULL}}
PendingPlatforms(tp, rows) ==
  SelectSeq(tp, LAMBDA p : p \notin CompletedPlatforms(rows) /\ p \notin FailedPlatforms(rows))

\* the handler reads and answers; the response names the pending platforms
Poll ==
  /\ status # "absent"
  /\ response' = Resp("STATUS", SeqToSet(PendingPlatforms(targetPlatforms, outputs)))
  /\ UNCHANGED store

\* --------------------------------------------------- sequential requests: Spec
\* platform_configs as created with a profile (platformDefaults, all enabled)
DefaultConfig(p) ==
  [present |-> TRUE, enabled |-> TRUE,
   charLimit |-> CASE p = "instagram" -> 2200 [] p = "linkedin" -> 3000 [] p = "twitter" -> 280
                   [] p = "facebook" -> 63206 [] p = "pinterest" -> 500 [] OTHER -> 2200,
   bestPostingTime |-> CASE p = "instagram" -> 14 [] p = "linkedin" -> 9 [] p = "twitter" -> 11
                   [] p = "facebook" -> 13 [] p = "pinterest" -> 20 [] OTHER -> 19,
   hashtagCountMin |-> CASE p = "instagram" -> 10 [] p = "linkedin" -> 3 [] p = "twitter" -> 2
                   [] p = "facebook" -> 2 [] p = "pinterest" -> 5 [] OTHER -> 3,
   hashtagCountMax |-> CASE p = "instagram" -> 15 [] p = "linkedin" -> 5 [] p = "twitter" -> 3
                   [] p = "facebook" -> 3 [] p = "pinterest" -> 10 [] OTHER -> 5,
   toneOverride |-> NULL, systemPrompt |-> NULL,
   brandVoiceProfile |-> [globalTone |-> NULL]]

\* -------------------------------------------------------- the job dispatcher
\* the orchestrator workflow marks the unit as processing before it calls the
\* platform processors
Dispatch ==
  /\ status = "pending"
  /\ status' = "processing"
  /\ UNCHANGED <<errorMessage, targetPlatforms, outputs, rowSeq, platformConfigs, response>>

\* ----------------------------------------------------------- initial state
Handlers == 1..MaxHandlers
IdleCb == [pc |-> "idle", body |-> NoBody, existing |-> NoId, counts |-> NoCounts]
IdleRg == [pc |-> "idle", platforms |-> {}]

Init ==
  /\ status = "absent"
  /\ errorMessage = NULL
  /\ targetPlatforms = <<>>
  /\ outputs = {}
  /\ rowSeq = [p \in Platforms |-> 0]
  /\ platformConfigs = [p \in Platforms |-> DefaultConfig(p)]
  /\ response = NoResp
  /\ cb = [h \in Handlers |-> IdleCb]
  /\ rg = IdleRg
  /\ jobs = {}
  /\ gen = 0
  /\ rowGen = [p \in Platforms |-> 0]
  /\ plan = {}
  /\ todo = {}

\* --------------------------------------------------- sequential requests: Spec
\* every request is handled to its response before the next one is taken
Triggers == {"unset", "ok", "http_error", "throws"}
SeqBodies ==
  {b \in CallbackBodies : b.hashtags = <<>> /\ b.rewritten_copy # "c2"
                          /\ (b.error_message # Undef => b.status = "failed")}
NonEmptySubsets(S) == (SUBSET S) \ {{}}

SubmitStep ==
  /\ \E tp \in TargetArrays, trig \in Triggers : Submit(tp, trig)
  /\ UNCHANGED <<handlers, jobvars, scenario>>
DispatchStep == Dispatch /\ UNCHANGED <<handlers, jobvars, scenario>>
CallbackStep ==
  /\ \E b \in SeqBodies : Callback(b)
  /\ UNCHANGED <<handlers, jobvars, scenario>>
RegenerateStep ==
  /\ \E P \in NonEmptySubsets(Platforms) : Regenerate(P, {})
  /\ UNCHANGED <<handlers, rowGen, scenario>>

PollStep == Poll /\ UNCHANGED <<handlers, jobvars, scenario>>

Next == SubmitStep \/ DispatchStep \/ CallbackStep \/ RegenerateStep \/ PollStep

Spec == Init /\ [][Next]_vars

\* ------------------------------------------ dispatched jobs reporting: SpecJobs
\* Requests handled one at a time; every callback is the report of a job that
\* the orchestrator or a regenerate call dispatched.  A job is not cancelled
\* by a later regenerate of its platform.  Which webhooks are reachable does
\* not matter to a rejected regenerate request: it is taken with all of them
\* reachable.
\* The handlers treat every platform name alike: the units of the closed
\* specifications target an initial segment of the platform list.
JobArrays(n) ==
  {a \in ArraysUpTo(n) :
     \A i \in 1..Len(a) : PlatIdx(a[i]) <= (IF i = 1 THEN 1 ELSE PlatIdx(a[i - 1]) + 1)}
JobBodies ==
  {b \in SeqBodies : Records(b) /\ b.error_message = Undef
                      /\ (b.status = "failed" => ~b.hasOutput)}

\* the orchestrator calls one processor per target platform
DispatchJobs ==
  /\ Dispatch
  /\ jobs' = jobs \cup {<<p, gen + 1>> : p \in SeqToSet(targetPlatforms)}
  /\ gen' = gen + 1

\* job j reports with body b; rowGen remembers whose outcome the row holds
JobCallback(j, b) ==
  /\ j \in jobs
  /\ b.platform = j[1]
  /\ Callback(b)
  /\ jobs' = jobs \ {j}
  /\ rowGen' = IF response'.code = "ACK" THEN [rowGen EXCEPT ![j[1]] = j[2]] ELSE rowGen
  /\ gen' = gen

JobsSubmitStep ==
  /\ \E tp \in JobArrays(MaxTargets) : Submit(tp, "ok")
  /\ UNCHANGED <<handlers, jobvars, scenario>>
JobsDispatchStep == DispatchJobs /\ UNCHANGED <<handlers, rowGen, scenario>>
JobsCallbackStep ==
  /\ \E j \in jobs, b \in JobBodies : JobCallback(j, b)
  /\ UNCHANGED <<handlers, scenario>>
JobsRegenerateStep ==
  /\ \E P \in NonEmptySubsets(Platforms) :
       \E D \in (IF InvalidPlatforms(targetPlatforms, P) # {} THEN {P} ELSE SUBSET P) :
       /\ (InvalidPlatforms(targetPlatforms, P) = {} /\ D # {}) => gen < MaxGen
       /\ Regenerate(P, D)
       /\ rowGen' = [p \in Platforms |->
                       IF p \in P /\ response'.code = "REGENERATING" THEN 0 ELSE rowGen[p]]
  /\ UNCHANGED <<handlers, scenario>>

NextJobs == JobsSubmitStep \/ JobsDispatchStep \/ JobsCallbackStep \/ JobsRegenerateStep

SpecJobs == Init /\ [][NextJobs]_vars

\* ------------------------------------------ interleaved handlers: SpecConc
\* The handlers suspend at every store call; the store runs each call
\* atomically.  Steps of the callback handler
CbFind(h, b) ==
  /\ status # "absent"
  /\ cb[h].pc = "idle"
  /\ cb' = [cb EXCEPT ![h] = [pc |-> "found", body |-> b,
                              existing |-> FindUnique(outputs, b.platform),
                              counts |-> NoCounts]]
  /\ UNCHANGED <<store, response>>

CbWrite(h) ==
  /\ cb[h].pc = "found"
  /\ LET b == cb[h].body
         w == WriteOutcome(outputs, rowSeq, b, cb[h].existing)
     IN /\ w.seq[b.platform] <= MaxRowSeq
        /\ outputs' = w.rows
        /\ rowSeq' = w.seq
        /\ IF w.ok
           THEN /\ cb' = [cb EXCEPT ![h].pc = "wrote"]
                /\ response' = response
           ELSE /\ cb' = [cb EXCEPT ![h] = IdleCb]
                /\ response' = Resp("INTERNAL_ERROR", {})
  /\ UNCHANGED <<status, errorMessage, targetPlatforms, platformConfigs>>

CbRead(h) ==
  /\ cb[h].pc = "wrote"
  /\ cb' = [cb EXCEPT ![h].pc = "counted",
                      ![h].counts = ReadCounts(targetPlatforms, outputs)]
  /\ UNCHANGED <<store, response>>

CbStatus(h) ==
  /\ cb[h].pc = "counted"
  /\ IF WritesStatus(cb[h].counts)
     THEN /\ status' = StatusWritten(cb[h].counts)
          /\ errorMessage' = ErrorWritten(cb[h].counts, cb[h].body)
     ELSE UNCHANGED <<status, errorMessage>>
  /\ response' = Resp("ACK", {})
  /\ cb' = [cb EXCEPT ![h] = IdleCb]
  /\ UNCHANGED <<targetPlatforms, outputs, rowSeq, platformConfigs>>

\* steps of the regenerate handler: validation and deleteMany, then the status
\* update and the processor webhooks
RgDelete(P) ==
  /\ status # "absent"
  /\ rg.pc = "idle"
  /\ IF InvalidPlatforms(targetPlatforms, P) # {}
     THEN /\ response' = Resp("INVALID_PLATFORMS", InvalidPlatforms(targetPlatforms, P))
          /\ UNCHANGED <<outputs, rg>>
     ELSE /\ outputs' = DeleteMany(outputs, P)
          /\ rg' = [pc |-> "deleted", platforms |-> P]
          /\ response' = response
  /\ UNCHANGED <<status, errorMessage, targetPlatforms, rowSeq, platformConfigs>>

RgStatus(D) ==
  /\ rg.pc = "deleted"
  /\ D \subseteq rg.platforms
  /\ status' = "processing"
  /\ jobs' = jobs \cup {<<p, gen + 1>> : p \in D}
  /\ gen' = IF D = {} THEN gen ELSE gen + 1
  /\ response' = Resp("REGENERATING", rg.platforms)
  /\ rg' = IdleRg
  /\ UNCHANGED <<errorMessage, targetPlatforms, outputs, rowSeq, platformConfigs>>

\* a request is taken by the lowest idle handler
FreeHandler(h) == cb[h].pc = "idle" /\ \A k \in Handlers : k < h => cb[k].pc # "idle"

ConcSubmitStep ==
  /\ \E tp \in JobArrays(ConcTargets) : Submit(tp, "ok")
  /\ UNCHANGED <<handlers, jobvars, scenario>>
ConcDispatchStep == DispatchJobs /\ UNCHANGED <<handlers, rowGen, scenario>>
ConcFindStep ==
  /\ \E h \in Handlers, j \in jobs, b \in JobBodies :
       /\ FreeHandler(h)
       /\ b.platform = j[1]
       /\ CbFind(h, b)
       /\ jobs' = jobs \ {j}
  /\ UNCHANGED <<rg, gen, rowGen, scenario>>
ConcWriteStep == (\E h \in Handlers : CbWrite(h)) /\ UNCHANGED <<rg, jobvars, scenario>>
ConcReadStep == (\E h \in Handlers : CbRead(h)) /\ UNCHANGED <<rg, jobvars, scenario>>
ConcStatusStep == (\E h \in Handlers : CbStatus(h)) /\ UNCHANGED <<rg, jobvars, scenario>>
ConcDeleteStep ==
  /\ \E P \in NonEmptySubsets(Platforms) : gen < MaxGen /\ RgDelete(P)
  /\ UNCHANGED <<cb, jobvars, scenario>>
ConcRegenStatusStep ==
  /\ \E D \in SUBSET rg.platforms : RgStatus(D)
  /\ UNCHANGED <<cb, rowGen, scenario>>

NextConc ==
  \/ ConcSubmitStep \/ ConcDispatchStep
  \/ ConcFindStep \/ ConcWriteStep \/ ConcReadStep \/ ConcStatusStep
  \/ ConcDeleteStep \/ ConcRegenStatusStep

SpecConc == Init /\ [][NextConc]_vars

\* ------------------------------- one fixed outcome per platform: SpecOrder
\* The platform jobs of a dispatched unit report one outcome each, fixed when
\* the unit is submitted (plan); the callback handlers interleave.
OrderBodies == {b \in SeqBodies : b.error_message = Undef}
OrderArrays == {s \in JobArrays(OrderTargets) : NoDuplicates(s)}
Plans(tp) ==
  {{f[p] : p \in SeqToSet(tp)} : f \in {g \in [SeqToSet(tp) -> OrderBodies] :
                                         \A p \in SeqToSet(tp) : g[p].platform = p}}

OrderSubmitStep ==
  /\ \E tp \in OrderArrays :
       /\ Submit(tp, "ok")
       /\ \E pl \in Plans(tp) : plan' = pl /\ todo' = pl
  /\ UNCHANGED <<handlers, jobvars>>
OrderDispatchStep == Dispatch /\ UNCHANGED <<handlers, jobvars, scenario>>
OrderFindStep ==
  /\ status # "pending"
  /\ \E h \in Handlers, b \in todo :
       /\ FreeHandler(h)
       /\ CbFind(h, b)
       /\ todo' = todo \ {b}
  /\ UNCHANGED <<rg, jobvars, plan>>

NextOrder ==
  \/ OrderSubmitStep \/ OrderDispatchStep \/ OrderFindStep
  \/ ConcWriteStep \/ ConcReadStep \/ ConcStatusStep

SpecOrder == Init /\ [][NextOrder]_vars

\* every job delivers its outcome and every handler runs to its response
SpecOrderFair == SpecOrder /\ WF_vars(NextOrder)

\* ------------------------------- regenerate, then its completions: SpecRegen
\* Sequential requests as in SpecJobs until a regenerate of a terminal unit
\* is accepted and reaches the processors of its platforms (plan: its
\* platforms); from then on only the report of the job it dispatched for each
\* of those platforms (todo: the platforms still to report).
RegenBodies == JobBodies

RegenFreeStep ==
  plan = {} /\ (JobsSubmitStep \/ JobsDispatchStep \/ JobsCallbackStep \/ JobsRegenerateStep)
RegenStartStep ==
  /\ plan = {}
  /\ status \in {"complete", "partial", "failed"}
  /\ gen < MaxGen
  /\ \E P \in NonEmptySubsets(Platforms) :
       /\ Regenerate(P, P)
       /\ response'.code = "REGENERATING"
       /\ rowGen' = [p \in Platforms |-> IF p \in P THEN 0 ELSE rowGen[p]]
       /\ plan' = P /\ todo' = P
  /\ UNCHANGED handlers
RegenCompletionStep ==
  /\ \E b \in RegenBodies :
       /\ b.platform \in todo
       /\ JobCallback(<<b.platform, gen>>, b)
       /\ todo' = todo \ {b.platform}
  /\ UNCHANGED <<handlers, plan>>

NextRegen == RegenFreeStep \/ RegenStartStep \/ RegenCompletionStep

SpecRegen == Init /\ [][NextRegen]_vars

\* ===================================================================== claims
Terminal == {"complete", "partial", "failed"}
TargetSet == SeqToSet(targetPlatforms)

\* the transition rule of the status aggregator as the specification states it
RuleHolds(st, t, r, s) ==
  /\ (r < t => st = "processing")
  /\ (r = t => st = (IF s = t THEN "complete" ELSE IF s = 0 THEN "failed" ELSE "partial"))

\* C1: every callback that records an outcome leaves the status the transition
\* rule gives for the stored results: processing while R < T; when R = T
\* complete if S = T, failed if S = 0, partial otherwise.
C1_CallbackFollowsRule ==
  [][\A b \in SeqBodies :
       (Callback(b) /\ Records(b) /\ response'.code = "ACK") =>
          RuleHolds(status', TargetCount(targetPlatforms'), OutputCount(outputs'),
                    SuccessCount(outputs'))]_vars

\* C2: completeness invariant: a complete unit has, for every target platform,
\* exactly one stored result and that result has non-null copy.
C2_CompleteHasAllTargets ==
  status = "complete" =>
    \A p \in TargetSet :
      /\ Cardinality(RowsOf(outputs, p)) = 1
      /\ \A r \in RowsOf(outputs, p) : r.rewrittenCopy # NULL

\* C5: regenerate(P) with P within the target platforms deletes the results of
\* exactly the platforms of P, leaves every other result unchanged in every
\* field, and sets the status to processing.
C5_RegenerationScope ==
  [][\A P \in NonEmptySubsets(Platforms) : \A D \in SUBSET P :
       (P \subseteq TargetSet /\ Regenerate(P, D)) =>
          /\ \A r \in outputs' : r.platform \notin P
          /\ \A r \in outputs : r.platform \notin P => r \in outputs'
          /\ outputs' \subseteq outputs
          /\ status' = "processing"]_vars

C5_Witness ==
  /\ response.code = "REGENERATING"
  /\ status = "processing"
  /\ \E p \in response.names : rowSeq[p] > 0 /\ RowsOf(outputs, p) = {}
  /\ \E r \in outputs : r.platform \notin response.names /\ r.rewrittenCopy # NULL

\* C9: once the status is complete, partial or failed it changes only as the
\* effect of a regenerate call.
C9_TerminalUntilRegenerate ==
  [][(status \in Terminal /\ status' # status) =>
       \E P \in NonEmptySubsets(Platforms) : \E D \in SUBSET P : Regenerate(P, D)]_vars

\* C7: when the report of a superseded job arrives after a newer job of the
\* same platform has recorded its result, the stored result and the status
\* derived from it are not overwritten.
C7_StaleCompletionIgnored ==
  [][\A j \in jobs : \A b \in JobBodies :
       (JobCallback(j, b) /\ j[2] < rowGen[j[1]] /\ RowsOf(outputs, j[1]) # {}) =>
          (outputs' = outputs /\ status' = status)]_vars

\* C10: a regenerate request naming a platform outside the target platforms
\* is rejected with INVALID_PLATFORMS naming exactly the offending platforms;
\* it deletes no result, leaves the status unchanged and dispatches no job.
C10_RegenerateRejectsInvalid ==
  [][\A P \in NonEmptySubsets(Platforms) : \A D \in SUBSET P :
       (~(P \subseteq TargetSet) /\ Regenerate(P, D)) =>
          /\ response' = Resp("INVALID_PLATFORMS", P \ TargetSet)
          /\ outputs' = outputs
          /\ status' = status
          /\ jobs' = jobs /\ gen' = gen]_vars

C10_Witness ==
  /\ response.code = "INVALID_PLATFORMS"
  /\ response.names # {}
  /\ status \in Terminal
  /\ \E r \in outputs : r.platform \in TargetSet

AllIdle == (\A h \in Handlers : cb[h].pc = "idle") /\ rg.pc = "idle"

PlanRecorded(pl) == {b \in pl : Records(b)}
PlanSucceeded(pl) == {b \in PlanRecorded(pl) : b.status = "success" /\ b.rewritten_copy # Undef}
PlanStatus(pl, t) ==
  IF Cardinality(PlanRecorded(pl)) < t THEN "processing"
  ELSE IF Cardinality(PlanSucceeded(pl)) = t THEN "complete"
  ELSE IF Cardinality(PlanSucceeded(pl)) = 0 THEN "failed"
  ELSE "partial"

\* C4: order independence: when every target platform has delivered its one
\* fixed outcome and the handlers have returned, the status is the one the
\* outcomes determine, whatever the arrival order and interleaving.
C4_OrderIndependence ==
  (plan # {} /\ todo = {} /\ AllIdle) =>
     status = PlanStatus(plan, TargetCount(targetPlatforms))

\* two successes and one failure over three platforms end in partial
C4_Witness ==
  /\ plan # {} /\ todo = {} /\ AllIdle
  /\ TargetCount(targetPlatforms) = 3
  /\ Cardinality(PlanSucceeded(plan)) = 2
  /\ Cardinality({b \in plan : b.status = "failed"}) = 1
  /\ status = "partial"

\* C6: after regenerate(P) of a terminal unit and one recorded completion for
\* each platform of P, with nothing else in between, the status is the one
\* the transition rule gives for the stored results.
C6_RegenerateReevaluates ==
  (plan # {} /\ todo = {}) =>
     RuleHolds(status, TargetCount(targetPlatforms), OutputCount(outputs),
               SuccessCount(outputs))

\* the regenerated platform reported a success and the unit is complete
C6_Witness ==
  /\ plan # {} /\ todo = {}
  /\ status = "complete"
  /\ OutputCount(outputs) = TargetCount(targetPlatforms)
  /\ TargetCount(targetPlatforms) = 2
  /\ \E p \in plan : rowSeq[p] = 2 /\ RowsOf(outputs, p) # {}

\* C8: no status is written from counts that are stale at the moment of the
\* write, and once every handler has returned the status of a dispatched unit
\* is the one the transition rule gives for the stored results.
C8_NoStaleStatus ==
  [][/\ \A h \in Handlers :
          (CbStatus(h) /\ WritesStatus(cb[h].counts)) =>
             cb[h].counts = ReadCounts(targetPlatforms, outputs)
     /\ (AllIdle' /\ jobs' # {}) =>
          RuleHolds(status', TargetCount(targetPlatforms'), OutputCount(outputs'),
                    SuccessCount(outputs'))]_vars

\* C11: recording a failed outcome for platform A changes only the stored
\* result of A and the status fields: every result of a sibling platform is
\* kept as it is; a sibling's outcome is still recorded and acknowledged when
\* other platforms have failed; and a callback turns the unit failed only
\* when no stored result has copy.
C11_FailureConfined ==
  [][\A b \in SeqBodies :
       Callback(b) =>
         /\ b.status = "failed" =>
              /\ {r \in outputs' : r.platform # b.platform}
                   = {r \in outputs : r.platform # b.platform}
              /\ targetPlatforms' = targetPlatforms
              /\ platformConfigs' = platformConfigs
         /\ (Records(b) /\ \E r \in outputs : r.platform # b.platform /\ r.rewrittenCopy = NULL) =>
              /\ response'.code = "ACK"
              /\ RowsOf(outputs', b.platform) # {}
         /\ (status' = "failed" /\ status # "failed") => SuccessCount(outputs') = 0]_vars

\* one platform failed, its sibling holds its copy, the unit is partial
C11_Witness ==
  /\ status = "partial"
  /\ response.code = "ACK"
  /\ TargetCount(targetPlatforms) = 2
  /\ \E r \in outputs : r.rewrittenCopy = NULL /\ r.platform \in TargetSet
  /\ \E r \in outputs : r.rewrittenCopy # NULL /\ r.platform \in TargetSet

\* ----------------------------------------------- edits of results: SpecEdit
\* the unit is submitted, dispatched and reported as under SpecJobs; results
\* are edited and the character limit of a platform is lowered
EditCharLimits == {2}
\* the ids a request names: those of the stored results, and one of no result
EditIds(rows) == {r.id : r \in rows} \cup {NoId}
EditInputs == {e \in EditBodies : ~e.hasHashtags => e.editedHashtags = <<>>}
\* requests for a result of the unit carry any body, the others one body
EditRequests(rows) ==
  {q \in [own : BOOLEAN, oid : EditIds(rows), e : EditInputs] :
     (~q.own \/ q.oid = NoId) => (q.e.editedCopy = "ab" /\ ~q.e.hasHashtags)}

EditStep ==
  /\ \E q \in EditRequests(outputs) : Edit(q.own, q.oid, q.e)
  /\ UNCHANGED <<handlers, jobvars, scenario>>
EditConfigStep ==
  /\ \E p \in TargetSet, u \in ConfigBodies(EditCharLimits, {}) :
       u.charLimit # Keep /\ UpdatePlatformConfig(p, u)
  /\ UNCHANGED <<handlers, jobvars, scenario>>

NextEdit ==
  JobsSubmitStep \/ JobsDispatchStep \/ JobsCallbackStep \/ EditConfigStep \/ EditStep

SpecEdit == Init /\ [][NextEdit]_vars

\* ------------------------------------------ scheduling of results: SpecSched
\* the unit is submitted, dispatched and reported as under SpecJobs; the best
\* posting time of a target platform is cleared, and schedule calls arrive
\* at two times of day with timestamps before, between and after them
Nows == {DayLen + 9, DayLen + 14}
CustomTimes == {NoTime, DayLen + 10, DayLen + 20}
NoCustom == [p \in Platforms |-> NoTime]

\* customSchedules names stored results only; best_times carries none
SchedRequests(rows) ==
  {q \in [mode : {"best_times", "custom"}, custom : [Platforms -> CustomTimes],
          now : Nows, order : Perms(rows)] :
     /\ q.mode = "best_times" => q.custom = NoCustom
     /\ \A p \in Platforms : RowsOf(rows, p) = {} => q.custom[p] = NoTime}

ScheduleStep ==
  /\ \E q \in SchedRequests(outputs) : Schedule(q.mode, q.custom, q.now, q.order)
  /\ UNCHANGED <<handlers, jobvars, scenario>>
SchedConfigStep ==
  /\ \E p \in TargetSet, u \in ConfigBodies({}, {NoBest}) :
       u.bestPostingTime # Keep /\ UpdatePlatformConfig(p, u)
  /\ UNCHANGED <<handlers, jobvars, scenario>>

NextSched ==
  JobsSubmitStep \/ JobsDispatchStep \/ JobsCallbackStep \/ SchedConfigStep \/ ScheduleStep

SpecSched == Init /\ [][NextSched]_vars

\* --------------------------------------------- every operation: SpecOps
\* one unit under all the requests a client and the processors make of it,
\* handled one at a time; edits carry one copy, schedule calls come in
\* best_times mode at one time of day
OpsEditStep ==
  /\ \E q \in EditRequests(outputs) :
       q.e.editedCopy = "ab" /\ ~q.e.hasHashtags /\ Edit(q.own, q.oid, q.e)
  /\ UNCHANGED <<handlers, jobvars, scenario>>
OpsScheduleStep ==
  /\ \E q \in SchedRequests(outputs) :
       q.mode = "best_times" /\ q.now = DayLen + 9 /\ Schedule(q.mode, q.custom, q.now, q.order)
  /\ UNCHANGED <<handlers, jobvars, scenario>>

NextOps ==
  \/ JobsSubmitStep \/ JobsDispatchStep \/ JobsCallbackStep \/ JobsRegenerateStep
  \/ PollStep \/ OpsEditStep \/ OpsScheduleStep

SpecOps == Init /\ [][NextOps]_vars

\* ------------------------------------------------- submissions: SpecSubmit
\* platforms of the profile are disabled and enabled, a unit is submitted
\* with any outcome of the orchestrator trigger, and the orchestrator starts
SubmitEnableStep ==
  /\ \E p \in Platforms, u \in EnableBodies : UpdatePlatformConfig(p, u)
  /\ UNCHANGED <<handlers, jobvars, scenario>>

NextSubmit == SubmitEnableStep \/ SubmitStep \/ DispatchStep

SpecSubmit == Init /\ [][NextSubmit]_vars

\* ------------------------------------ platform configurations: SpecConfig
\* the hashtag counts of the platforms are updated, one or both at a time
HashtagCounts == {4, 12}

HashtagConfigStep ==
  /\ \E p \in Platforms, u \in HashtagBodies(HashtagCounts) : UpdatePlatformConfig(p, u)
  /\ UNCHANGED <<handlers, jobvars, scenario>>

NextConfig == HashtagConfigStep

SpecConfig == Init /\ [][NextConfig]_vars

\* ------------------------------------- resolved configuration: SpecResolve
\* a profile with any global tone and, per platform, any tone override and
\* system prompt; the configurations are tested
Tones == {NULL, "casual"}
GlobalTones == {NULL, "professional"}
Prompts == {NULL, "custom prompt"}
ResolveConfigs ==
  {[p \in Platforms |->
      [DefaultConfig(p) EXCEPT !.toneOverride = t[p], !.systemPrompt = sp[p],
                               !.brandVoiceProfile = [globalTone |-> g]]] :
     t \in [Platforms -> Tones], sp \in [Platforms -> Prompts], g \in GlobalTones}

InitResolve ==
  /\ status = "absent"
  /\ errorMessage = NULL
  /\ targetPlatforms = <<>>
  /\ outputs = {}
  /\ rowSeq = [p \in Platforms |-> 0]
  /\ platformConfigs \in ResolveConfigs
  /\ response = NoResp
  /\ cb = [h \in Handlers |-> IdleCb]
  /\ rg = IdleRg
  /\ jobs = {}
  /\ gen = 0
  /\ rowGen = [p \in Platforms |-> 0]
  /\ plan = {}
  /\ todo = {}

TestConfigStep ==
  /\ \E p \in Platforms : TestConfig(p)
  /\ UNCHANGED <<handlers, jobvars, scenario>>

NextResolve == TestConfigStep

SpecResolve == InitResolve /\ [][NextResolve]_vars

\* C12: a partial unit has a stored result for every target platform, at
\* least one with copy and at least one without; a failed unit has a stored
\* result for every target platform and none of them has copy.
C12_TerminalFailureMeaning ==
  /\ status = "partial" =>
       /\ \A p \in TargetSet : RowsOf(outputs, p) # {}
       /\ \E r \in outputs : r.rewrittenCopy # NULL
       /\ \E r \in outputs : r.rewrittenCopy = NULL
  /\ status = "failed" =>
       /\ \A p \in TargetSet : RowsOf(outputs, p) # {}
       /\ \A r \in outputs : r.platform \in TargetSet => r.rewrittenCopy = NULL

\* C13: the status poll puts every target platform in exactly one of
\* platforms_complete, platforms_failed and platforms_pending; the three are
\* pairwise disjoint and together cover the target platforms.
C13_PollBreakdown ==
  status # "absent" =>
    LET c == CompletedPlatforms(outputs)
        f == FailedPlatforms(outputs)
        n == SeqToSet(PendingPlatforms(targetPlatforms, outputs))
    IN /\ c \cap f = {} /\ c \cap n = {} /\ f \cap n = {}
       /\ TargetSet \subseteq (c \cup f \cup n)
       /\ \A p \in TargetSet :
            /\ p \in c <=> \E r \in RowsOf(outputs, p) : r.rewrittenCopy # NULL
            /\ p \in f <=> \E r \in RowsOf(outputs, p) : r.rewrittenCopy = NULL
            /\ p \in n <=> RowsOf(outputs, p) = {}

\* a poll answered while one target platform has failed and one is pending
C13_Witness ==
  /\ response.code = "STATUS"
  /\ response.names # {}
  /\ FailedPlatforms(outputs) \cap TargetSet # {}
  /\ response.names = SeqToSet(PendingPlatforms(targetPlatforms, outputs))

\* C14: a recorded outcome leaves the stored result of its platform with
\* null copy exactly when the outcome is a failure; a recorded success leaves
\* non-null copy.
C14_NullCopyIffFailed ==
  [][\A b \in SeqBodies :
       (Callback(b) /\ Records(b) /\ response'.code = "ACK") =>
          \A r \in RowsOf(outputs', b.platform) :
             (r.rewrittenCopy = NULL) <=> (b.status = "failed")]_vars

\* C15: errorMessage is non-null only for a failed unit all of whose target
\* platforms are recorded as failed.
C15_ErrorMessageOnlyWhenFailed ==
  errorMessage # NULL =>
    /\ status = "failed"
    /\ \A p \in TargetSet :
         /\ RowsOf(outputs, p) # {}
         /\ \A r \in RowsOf(outputs, p) : r.rewrittenCopy = NULL

\* C16: an accepted edit of a result sets its userEdited flag when editedCopy
\* or editedHashtags is supplied, stores the supplied fields, leaves the
\* generated copy and hashtags of the result as they were, leaves every other
\* result unchanged and leaves the status of the unit unchanged.
C16_EditEffects ==
  [][response'.code = "EDITED" =>
       \A q \in EditRequests(outputs) :
         Edit(q.own, q.oid, q.e) =>
            /\ HasId(outputs, q.oid) /\ HasId(outputs', q.oid)
            /\ LET old == RowById(outputs, q.oid)
                   new == RowById(outputs', q.oid)
               IN /\ (q.e.editedCopy # Undef \/ q.e.hasHashtags) => new.userEdited
                  /\ q.e.editedCopy # Undef => new.editedCopy = q.e.editedCopy
                  /\ q.e.hasHashtags => new.editedHashtags = q.e.editedHashtags
                  /\ new.rewrittenCopy = old.rewrittenCopy
                  /\ new.hashtags = old.hashtags
                  /\ new.platform = old.platform
            /\ {x \in outputs' : x.id # q.oid} = {x \in outputs : x.id # q.oid}
            /\ status' = status]_vars

\* an edited result that kept its generated copy, beside an unedited one
C16_Witness ==
  /\ response.code = "EDITED"
  /\ status \in {"complete", "partial"}
  /\ \E r \in outputs : /\ r.userEdited /\ r.editedCopy = "ab" /\ r.editedHashtags = <<"#a">>
                         /\ r.rewrittenCopy = "c1"
  /\ \E r \in outputs : ~r.userEdited

\* C17: an edit is rejected, with no result and no status changed, with
\* OUTPUT_NOT_FOUND when the result does not belong to the unit and with
\* CHAR_LIMIT_EXCEEDED when the supplied copy is longer than the character
\* ceiling of the result's platform; copy of at most that length is accepted.
C17_EditValidation ==
  [][\A q \in EditRequests(outputs) :
       Edit(q.own, q.oid, q.e) =>
         LET belongs == q.own /\ HasId(outputs, q.oid)
             ceiling == LET c == platformConfigs[RowById(outputs, q.oid).platform]
                        IN IF c.present THEN c.charLimit ELSE DefaultCharLimit
             long == q.e.editedCopy # Undef /\ StrLen(q.e.editedCopy) > ceiling
         IN /\ ~belongs =>
                 /\ response'.code = "OUTPUT_NOT_FOUND"
                 /\ outputs' = outputs /\ status' = status
            /\ (belongs /\ long) =>
                 /\ response'.code = "CHAR_LIMIT_EXCEEDED"
                 /\ outputs' = outputs /\ status' = status
            /\ (belongs /\ ~long) => response'.code = "EDITED"]_vars

\* copy of exactly the ceiling was stored, then longer copy was rejected
C17_Witness ==
  /\ response.code = "CHAR_LIMIT_EXCEEDED"
  /\ \E r \in outputs : /\ response.names = {r.platform}
                         /\ platformConfigs[r.platform].charLimit = StrLen("ab")
                         /\ r.editedCopy = "ab"

C19_ScheduleAllOrNothing ==
  [][\A q \in SchedRequests(outputs) :
       (/\ Schedule(q.mode, q.custom, q.now, q.order)
        /\ q.mode = "custom"
        /\ status \in {"complete", "partial"}
        /\ \A r \in outputs : Eligible(r) => q.custom[r.platform] # NoTime
        /\ \E r \in outputs : Eligible(r) /\ q.custom[r.platform] <= q.now)
       => /\ response'.code = "INVALID_SCHEDULE"
          /\ outputs' = outputs]_vars

C21_TargetsImmutable ==
  [][status # "absent" => targetPlatforms' = targetPlatforms]_vars

\* a unit that has been reported, regenerated, edited and scheduled
C21_Witness ==
  /\ gen = 2 /\ status \in {"complete", "partial"}
  /\ \E r \in outputs : r.userEdited
  /\ \E r \in outputs : r.scheduledFor # NoTime
  /\ Len(targetPlatforms) = 2

\* C22: a submission naming a target platform without an enabled
\* configuration is rejected with MISSING_PLATFORM_CONFIG, no unit is
\* created and no job dispatched; an accepted submission creates the unit
\* pending with the requested, non-empty target platforms.
C22_SubmitValidation ==
  [][\A tp \in TargetArrays, trig \in Triggers :
       Submit(tp, trig) =>
         LET missing == {p \in SeqToSet(tp) :
                           ~(platformConfigs[p].present /\ platformConfigs[p].enabled)}
         IN /\ missing # {} =>
                 /\ response'.code = "MISSING_PLATFORM_CONFIG"
                 /\ response'.names = missing
                 /\ status' = "absent" /\ targetPlatforms' = targetPlatforms
                 /\ outputs' = outputs /\ jobs' = jobs
            /\ missing = {} =>
                 /\ status' # "absent"
                 /\ targetPlatforms' = tp /\ Len(tp) >= 1
                 /\ response'.code # "MISSING_PLATFORM_CONFIG"
            /\ response'.code = "CREATED_PENDING" => status' = "pending"]_vars

\* a submission rejected for a disabled platform, no unit created
C22_Witness ==
  /\ response.code = "MISSING_PLATFORM_CONFIG" /\ response.names # {}
  /\ status = "absent"
  /\ \E p \in Platforms : platformConfigs[p].enabled /\ p \notin response.names

\* C23: when the processing workflow cannot be triggered for the new unit,
\* the unit is marked failed with an error message and the caller gets
\* N8N_TRIGGER_FAILED; success with status pending is reported only when
\* the workflow was triggered.
C23_TriggerFailure ==
  [][\A tp \in TargetArrays, trig \in Triggers :
       (Submit(tp, trig) /\ MissingPlatforms(platformConfigs, tp) = {}) =>
          /\ trig # "ok" =>
               /\ status' = "failed" /\ errorMessage' # NULL
               /\ response'.code = "N8N_TRIGGER_FAILED"
          /\ response'.code = "CREATED_PENDING" => trig = "ok"]_vars

\* C24: every stored platform configuration has
\* 0 <= hashtagCountMin <= hashtagCountMax, after any sequence of updates.
C24_HashtagRange ==
  \A p \in Platforms :
    platformConfigs[p].present =>
      /\ 0 <= platformConfigs[p].hashtagCountMin
      /\ platformConfigs[p].hashtagCountMin <= platformConfigs[p].hashtagCountMax

\* C25: each field resolves to the platform override when set, else to the
\* profile-level setting when set, else to the system default: the prompt
\* a configuration is tested with is its own system prompt when set and the
\* default prompt otherwise, and the default prompt carries the tone
\* override when set and the global tone of the profile otherwise.
C25_ConfigPrecedence ==
  [][\A p \in Platforms :
       (TestConfig(p) /\ response'.code = "TESTED") =>
          LET c == platformConfigs[p]
              tone == IF IsSet(c.toneOverride) THEN c.toneOverride
                      ELSE c.brandVoiceProfile.globalTone
          IN /\ response'.names # {}
             /\ IsSet(c.systemPrompt) => response'.names = {c.systemPrompt}
             /\ ~IsSet(c.systemPrompt) =>
                  /\ DefaultPromptText \in response'.names
                  /\ IsSet(tone) => tone \in response'.names]_vars

\* C26: progress: once the unit is dispatched and every target platform's
\* job delivers its one outcome, with no regenerate, the unit eventually is
\* complete, partial or failed with a stored result for every target
\* platform, under any interleaving of the handlers.
C26_Progress ==
  (plan # {} /\ status = "processing")
    ~> (/\ status \in {"complete", "partial", "failed"}
        /\ \A p \in TargetSet : RowsOf(outputs, p) # {})

\* C27: after a regenerate the status stays processing as long as a job
\* that this regenerate dispatched has not reported; the report of an older
\* job for the same platform does not make the unit terminal.
C27_ProcessingUntilRedone ==
  \A j \in jobs : (gen >= 2 /\ j[2] = gen) => status = "processing"

\* C28: the platform of every stored result is one of the target platforms
\* of its unit.
C28_ResultsWithinTargets ==
  \A r \in outputs : r.platform \in TargetSet

\* C29: every callback that is acknowledged leaves a stored result for its
\* (content, platform), whatever its status and with or without an output
\* object.
C29_AckedIsRecorded ==
  [][\A b \in SeqBodies :
       (Callback(b) /\ response'.code = "ACK") => RowsOf(outputs', b.platform) # {}]_vars

\* C30: a regenerate call answered with status processing has dispatched a
\* job for each platform it names.
C30_RegenerateDispatchesAll ==
  [][\A P \in NonEmptySubsets(Platforms) : \A D \in SUBSET P :
       (response'.code = "REGENERATING" /\ Regenerate(P, D)) =>
          \A p \in P : \E j \in jobs' \ jobs : j[1] = p]_vars

\* ------------------------------------------- callbacks sent again: SpecRepeat
\* Requests handled one at a time; a processor may send the callback it sent
\* last a second time (plan: the body of the callback handled last, todo: that
\* body once it has been handled again).  Any other request ends the pair.
RepeatBodies ==
  {b \in CallbackBodies : b.rewritten_copy # "c2"
                          /\ (b.error_message # Undef => b.status = "failed")}

RepeatSubmitStep ==
  /\ \E tp \in JobArrays(MaxTargets) : Submit(tp, "ok")
  /\ plan' = {} /\ todo' = {}
  /\ UNCHANGED <<handlers, jobvars>>
RepeatDispatchStep ==
  /\ Dispatch
  /\ plan' = {} /\ todo' = {}
  /\ UNCHANGED <<handlers, jobvars>>
RepeatRegenerateStep ==
  /\ \E P \in NonEmptySubsets(TargetSet) : Regenerate(P, {})
  /\ plan' = {} /\ todo' = {}
  /\ UNCHANGED <<handlers, rowGen>>
DeliverStep ==
  /\ \E b \in RepeatBodies : Callback(b) /\ plan' = {b}
  /\ todo' = {}
  /\ UNCHANGED <<handlers, jobvars>>
RedeliverStep ==
  /\ \E b \in plan : Callback(b) /\ todo' = {b}
  /\ UNCHANGED <<handlers, jobvars, plan>>

NextRepeat ==
  RepeatSubmitStep \/ RepeatDispatchStep \/ RepeatRegenerateStep
  \/ DeliverStep \/ RedeliverStep

SpecRepeat == Init /\ [][NextRepeat]_vars

\* C31: for every stored result whose userEdited flag is set, the copy
\* selected for publication is non-null whenever the generated copy is
\* non-null: an edit of the hashtags alone leaves a publishable copy.
C31_PublishableCopy ==
  \A r \in outputs :
    (r.userEdited /\ r.rewrittenCopy # NULL) => PublishCopy(r) # NULL

\* C32: recording is idempotent: the same outcome callback for the same
\* (content, platform), handled twice in a row, leaves the stored results
\* (their number and their fields) and the unit's status as they were after
\* it was handled once.
C32_RecordingIdempotent ==
  [][\A b \in plan :
       Callback(b) => (outputs' = outputs /\ status' = status)]_vars
C32_Witness ==
  /\ status = "partial"
  /\ \E b \in todo :
       /\ b.status = "success" /\ b.hasOutput
       /\ \E r \in RowsOf(outputs, b.platform) :
            r.rewrittenCopy = "c1" /\ r.hashtags = <<"#a">>
  /\ \E r \in outputs : r.rewrittenCopy = NULL

====
